---- MODULE Spec2Model ----
(***************************************************************************)
(* heater-monitor: the sample store (src/src/storage.rs), its range and    *)
(* aggregation queries, and the two tasks that share it under one mutex    *)
(* (src/src/main.rs, src/src/server.rs).                                   *)
(*                                                                         *)
(* Five specifications over the same state:                                *)
(*   Spec       ingestion: add_measurement, push_raw_sample, the replay    *)
(*              of the backlog file by Storage::new;                       *)
(*   SpecQuery  the queries of a store built by push_raw_sample;           *)
(*   SpecLoop   per_minute_avg_fill pass by pass of its loop;              *)
(*   SpecLine   Sample::deserialize on the lines of a bounded alphabet;    *)
(*   SpecApp    the polling task and the temps handlers under the mutex.   *)
(*                                                                         *)
(* Time is counted in ticks, TicksPerSec ticks to the second: SystemTime   *)
(* is finer than the whole seconds of Duration::from_secs and as_secs.     *)
(* Temperatures are integers; a mean sum / count is kept as the exact      *)
(* fraction in lowest terms (f64 rounding is not modelled).                *)
(* Option<T>: None is <<>>, Some(x) is <<x>>.                              *)
(***************************************************************************)
EXTENDS Integers, Sequences, FiniteSets, TLC

VARIABLES
    storage,    \* the Storage value behind the Arc<Mutex<..>>
    backlog,    \* the lines of the backlog file on disk
    inserted,   \* history: the samples handed to push_raw_sample since Storage::new
    call,       \* the last operation called on the store, its arguments and result
    clock,      \* SystemTime::now(), in ticks
    mutex,      \* the Mutex around the store: locked, poisoned
    ingest,     \* the polling task of run_app: its position, its guard, the value fetched
    handler     \* the temps handlers in flight: position, guard and locals of each

storeVars == <<storage, backlog, inserted, call>>
appVars == <<clock, mutex, ingest, handler>>
vars == <<storage, backlog, inserted, call, clock, mutex, ingest, handler>>

(* ------------------------------ bounds --------------------------------- *)

\* ticks in one second (the resolution of SystemTime below one second)
TicksPerSec == 2
\* the wall clock of the ingestion specification shows 0..MaxNow
MaxNow == 2
\* calls of add_measurement / push_raw_sample in one run
MaxInserts == 3
\* max_capacity is None or 0..MaxCap
MaxCap == 2

\* the store of the query specification is fed samples of the seconds 0..MaxSecs
MaxSecs == 9
\* samples the store of the query specification is fed
MaxSamples == 2
\* averaging_interval is 0..MaxInterval seconds
MaxInterval == 2
\* the ceilings of the aggregation loop, 1000000 passes and 100000 buckets in the
\* source (storage.rs:207, storage.rs:242), scaled to the times of the model
LoopCeiling == 10
AveragesCeiling == 8

\* consecutive empty buckets that still carry the previous average
StaleBuckets == 5

\* the clock of the application specification shows 0..MaxClock
MaxClock == 1
\* requests of /temps in flight at once
MaxHandlers == 2
\* iterations of the polling task that take the lock (its counter cnt)
MaxCnt == 1
\* tokens in a line given to Sample::deserialize
MaxTokens == 4

\* hours * 3600 of the temps handler
SecsPerHour == 3600

Temps == {1, 2}

None == <<>>
Some(x) == <<x>>

Min(a, b) == IF a <= b THEN a ELSE b

(* ------------------------------ Sample --------------------------------- *)

Sample(ts, temp) == [timestamp |-> ts, temperature |-> temp]

\* Duration::from_secs and Duration::as_secs, on ticks
from_secs(secs) == secs * TicksPerSec
as_secs(ticks) == ticks \div TicksPerSec

\* A line of the backlog file is the tuple of its whitespace-separated tokens.
\* A token is a word (text that is no number), a decimal integer literal, or one
\* of the literals of f64 that are no numbers: "NaN", "inf", "-inf".
Word(w) == [k |-> "word", v |-> w]
Num(n) == [k |-> "int", v |-> n]
NanLit == [k |-> "nan", v |-> "NaN"]
InfLit(sign) == [k |-> "inf", v |-> sign]

\* The f64 values of the model are the integers; f64::NAN and f64::INFINITY are
\* two integers beyond every number a line or a sensor gives, and every
\* comparison of f64 values goes through Gt and Lt, where NaN is unordered.
NaN == 1000000
Infinity == 100000
Gt(a, b) == a # NaN /\ b # NaN /\ a > b
Lt(a, b) == a # NaN /\ b # NaN /\ a < b

Ok(x) == [ok |-> TRUE, val |-> x]
Err(e) == [ok |-> FALSE, err |-> e]
\* panic!(..): the call does not return
Panic(msg) == [ok |-> FALSE, err |-> "panic", msg |-> msg]

\* str::parse::<u64>: a literal with no sign that is an integer >= 0
parse_u64(tok) == IF tok.k = "int" /\ tok.v >= 0 THEN Ok(tok.v) ELSE Err("ParseError")
\* str::parse::<f64>: the literals "NaN", "inf" and "-inf" parse as well
parse_f64(tok) ==
    IF tok.k = "int" THEN Ok(tok.v)
    ELSE IF tok.k = "nan" THEN Ok(NaN)
    ELSE IF tok.k = "inf" THEN Ok(tok.v * Infinity)
    ELSE Err("ParseError")

\* serialize that writes the time in the clock's own unit instead of whole seconds
serialize_subsec(sample) ==
    IF sample.timestamp < 0 THEN Err("TimeError")
    ELSE Ok(<<Word("t1"), Num(sample.timestamp), Num(sample.temperature)>>)

\* duration_since(UNIX_EPOCH)? fails for a time before the epoch, which is tick 0
serialize(sample) ==
    IF sample.timestamp < 0 THEN Err("TimeError")
    ELSE Ok(<<Word("t1"), Num(as_secs(sample.timestamp)), Num(sample.temperature)>>)

\* parts[0] == "t1"
IsTag(tok) == tok.k = "word" /\ tok.v = "t1"

deserialize(line) ==
    IF Len(line) # 3 \/ ~IsTag(line[1]) THEN Err("ParseError")
    ELSE LET timestamp_secs == parse_u64(line[2])
             temperature == parse_f64(line[3])
         IN  IF ~timestamp_secs.ok THEN Err("ParseError")
             ELSE IF ~temperature.ok THEN Err("ParseError")
             ELSE IF Gt(temperature.val, 1000) \/ Lt(temperature.val, -1000)
             THEN Err("ParseError")
             ELSE Ok(Sample(from_secs(timestamp_secs.val), temperature.val))

(* ------------------------------ Storage -------------------------------- *)

Config(cap, avg, file) ==
    [max_capacity |-> cap, averaging_interval |-> avg, backlog |-> file]

\* push_raw_sample with the capacity test written > instead of >=
push_raw_sample_gt(self, sample) ==
    IF self.last_sample_time # None /\ self.last_sample_time[1] > sample.timestamp
    THEN self
    ELSE LET s1 == [self EXCEPT !.last_sample_time = Some(sample.timestamp)]
         IN  IF s1.config.max_capacity # None /\ s1.config.max_capacity[1] = 0
             THEN s1
             ELSE LET s2 == IF s1.config.max_capacity # None
                               /\ Len(s1.samples) > s1.config.max_capacity[1]
                            THEN [s1 EXCEPT !.samples = Tail(s1.samples)]
                            ELSE s1
                  IN  [s2 EXCEPT !.samples = Append(s2.samples, sample),
                                 !.last    = Some(sample)]

\* push_raw_sample that records the timestamp before it tests the order
push_raw_sample_stamp(self, sample) ==
    IF self.last_sample_time # None /\ self.last_sample_time[1] > sample.timestamp
    THEN [self EXCEPT !.last_sample_time = Some(sample.timestamp)]
    ELSE LET s1 == [self EXCEPT !.last_sample_time = Some(sample.timestamp)]
         IN  IF s1.config.max_capacity # None /\ s1.config.max_capacity[1] = 0
             THEN s1
             ELSE LET s2 == IF s1.config.max_capacity # None
                               /\ Len(s1.samples) >= s1.config.max_capacity[1]
                            THEN [s1 EXCEPT !.samples = Tail(s1.samples)]
                            ELSE s1
                  IN  [s2 EXCEPT !.samples = Append(s2.samples, sample),
                                 !.last    = Some(sample)]

\* push_raw_sample without the order test
push_raw_sample_noreject(self, sample) ==
    LET s1 == [self EXCEPT !.last_sample_time = Some(sample.timestamp)]
    IN  IF s1.config.max_capacity # None /\ s1.config.max_capacity[1] = 0
        THEN s1
        ELSE LET s2 == IF s1.config.max_capacity # None
                          /\ Len(s1.samples) >= s1.config.max_capacity[1]
                       THEN [s1 EXCEPT !.samples = Tail(s1.samples)]
                       ELSE s1
             IN  [s2 EXCEPT !.samples = Append(s2.samples, sample),
                            !.last    = Some(sample)]

\* push_raw_sample caching the sample before the test of the capacity
push_raw_sample_cache(self, sample) ==
    IF self.last_sample_time # None /\ self.last_sample_time[1] > sample.timestamp
    THEN self
    ELSE LET s1 == [self EXCEPT !.last_sample_time = Some(sample.timestamp),
                                !.last = Some(sample)]
         IN  IF s1.config.max_capacity # None /\ s1.config.max_capacity[1] = 0
             THEN s1
             ELSE LET s2 == IF s1.config.max_capacity # None
                               /\ Len(s1.samples) >= s1.config.max_capacity[1]
                            THEN [s1 EXCEPT !.samples = Tail(s1.samples)]
                            ELSE s1
                  IN  [s2 EXCEPT !.samples = Append(s2.samples, sample)]

push_raw_sample(self, sample) ==
    IF self.last_sample_time # None /\ self.last_sample_time[1] > sample.timestamp
    THEN self
    ELSE LET s1 == [self EXCEPT !.last_sample_time = Some(sample.timestamp)]
         IN  IF s1.config.max_capacity # None /\ s1.config.max_capacity[1] = 0
             THEN s1
             ELSE LET s2 == IF s1.config.max_capacity # None
                               /\ Len(s1.samples) >= s1.config.max_capacity[1]
                            THEN [s1 EXCEPT !.samples = Tail(s1.samples)]
                            ELSE s1
                  IN  [s2 EXCEPT !.samples = Append(s2.samples, sample),
                                 !.last    = Some(sample)]

\* a line of bytes that are not UTF-8: reader.lines() yields Err for it
BadUtf8 == <<[k |-> "bytes", v |-> "not UTF-8"]>>

\* the item of reader.lines() for this line is Ok
Readable(line) == \A i \in 1..Len(line) : line[i].k # "bytes"

\* the store when read_samples_from_file returns: line? returns at a line that
\* cannot be read, and Storage::new goes on with what was replayed before it
RECURSIVE read_samples_from_file(_, _)
read_samples_from_file(self, lines) ==
    IF lines = <<>> THEN self
    ELSE IF ~Readable(Head(lines)) THEN self
    ELSE LET sample == deserialize(Head(lines))
         IN  read_samples_from_file(
                 IF sample.ok THEN push_raw_sample(self, sample.val) ELSE self,
                 Tail(lines))

\* Storage::new: the replay of the backlog file, then the append handle
New(config, file) ==
    LET rv == [ samples          |-> <<>>,
                file_store       |-> None,
                last_sample_time |-> None,
                config           |-> config,
                last             |-> None ]
        replayed == IF config.backlog # None THEN read_samples_from_file(rv, file) ELSE rv
    IN  [replayed EXCEPT !.file_store = config.backlog]

\* the lines add_measurement leaves in the backlog file; wr tells whether
\* file_store.write(..) is Ok
written(self, file, sample, wr) ==
    IF self.file_store # None /\ serialize(sample).ok /\ wr
    THEN Append(file, serialize(sample).val)
    ELSE file

\* add_measurement that gives up when the sample did not reach the file
add_measurement_abort(self, now, temp, wr) ==
    IF self.file_store # None /\ (~serialize(Sample(now, temp)).ok \/ ~wr)
    THEN self
    ELSE push_raw_sample(self, Sample(now, temp))

\* the store after add_measurement: neither serialize nor the write decides
\* whether the sample is pushed
add_measurement(self, now, temp, wr) ==
    push_raw_sample(self, Sample(now, temp))

\* history: the samples a replay of the file hands to push_raw_sample
RECURSIVE Records(_)
Records(lines) ==
    IF lines = <<>> \/ ~Readable(Head(lines)) THEN <<>>
    ELSE (IF deserialize(Head(lines)).ok THEN <<deserialize(Head(lines)).val>> ELSE <<>>)
         \o Records(Tail(lines))

len(self) == Len(self.samples)

latest_sample(self) ==
    IF self.samples = <<>> THEN None ELSE Some(self.samples[Len(self.samples)])

oldest_sample(self) ==
    IF self.samples = <<>> THEN None ELSE Some(self.samples[1])

get_last_sample(self) == self.last

(* ------------------------------ queries -------------------------------- *)

\* the filter with the upper bound taken as exclusive
RECURSIVE Filter_exclusive(_, _, _)
Filter_exclusive(samples, from, to) ==
    IF samples = <<>> THEN <<>>
    ELSE (IF Head(samples).timestamp >= from /\ Head(samples).timestamp < to
          THEN <<Head(samples)>> ELSE <<>>)
         \o Filter_exclusive(Tail(samples), from, to)

\* iter().filter(..).collect(): the samples of the buffer within [from, to], in order
RECURSIVE Filter(_, _, _)
Filter(samples, from, to) ==
    IF samples = <<>> THEN <<>>
    ELSE (IF Head(samples).timestamp >= from /\ Head(samples).timestamp <= to
          THEN <<Head(samples)>> ELSE <<>>)
         \o Filter(Tail(samples), from, to)

\* get_samples_in_range that looks for samples before it looks at the range
get_samples_in_range_late(self, from, to) ==
    LET samples == Filter(self.samples, from, to)
    IN  IF samples = <<>> THEN Err("NoDataAvailable")
        ELSE IF from > to THEN Err("InvalidTimeRange")
        ELSE Ok(samples)

\* get_samples_in_range without the is_empty test
get_samples_in_range_noempty(self, from, to) ==
    IF from > to THEN Err("InvalidTimeRange")
    ELSE Ok(Filter(self.samples, from, to))

get_samples_in_range(self, from, to) ==
    IF from > to THEN Err("InvalidTimeRange")
    ELSE LET samples == Filter(self.samples, from, to)
         IN  IF samples = <<>> THEN Err("NoDataAvailable") ELSE Ok(samples)

RECURSIVE Gcd(_, _)
Gcd(a, b) == IF b = 0 THEN a ELSE Gcd(b, a % b)

\* sum / count as f64: the exact fraction, in lowest terms
Mean(sum, count) ==
    LET g == Gcd(IF sum < 0 THEN -sum ELSE sum, count)
    IN  [num |-> sum \div g, den |-> count \div g]

\* the first bucket started at the epoch instead of at the first sample
Locals_epoch(samples) ==
    [ timestamp        |-> 0,
      count            |-> 0,
      sum              |-> 0,
      it               |-> 1,
      previous_average |-> None,
      averages         |-> <<>>,
      no_samples_count |-> 0,
      fin              |-> FALSE,
      loops            |-> 0 ]

\* the locals of per_minute_avg_fill at the head of its while loop; it is the
\* 1-based position of the peekable iterator in samples
Locals(samples) ==
    [ timestamp        |-> samples[1].timestamp,
      count            |-> 0,
      sum              |-> 0,
      it               |-> 1,
      previous_average |-> None,
      averages         |-> <<>>,
      no_samples_count |-> 0,
      fin              |-> FALSE,
      loops            |-> 0 ]

\* the bucket is closed without the reset of no_samples_count
CloseBucket_noreset(l, interval, fin) ==
    LET no_samples_count == IF l.count > 0 THEN l.no_samples_count
                            ELSE l.no_samples_count + 1
        average == IF l.count > 0 THEN Some(Mean(l.sum, l.count)) ELSE l.previous_average
        previous_average == IF no_samples_count > StaleBuckets THEN None ELSE average
    IN  [l EXCEPT !.fin = fin,
                  !.no_samples_count = no_samples_count,
                  !.previous_average = previous_average,
                  !.timestamp = l.timestamp + interval,
                  !.averages = Append(l.averages, previous_average),
                  !.count = 0,
                  !.sum = 0]

\* the bucket closed with the staleness test written >= instead of >
CloseBucket_ge(l, interval, fin) ==
    LET no_samples_count == IF l.count > 0 THEN 0 ELSE l.no_samples_count + 1
        average == IF l.count > 0 THEN Some(Mean(l.sum, l.count)) ELSE l.previous_average
        previous_average == IF no_samples_count >= StaleBuckets THEN None ELSE average
    IN  [l EXCEPT !.fin = fin,
                  !.no_samples_count = no_samples_count,
                  !.previous_average = previous_average,
                  !.timestamp = l.timestamp + interval,
                  !.averages = Append(l.averages, previous_average),
                  !.count = 0,
                  !.sum = 0]

\* the rest of one pass of the loop after the match: the bucket is closed
CloseBucket(l, interval, fin) ==
    LET no_samples_count == IF l.count > 0 THEN 0 ELSE l.no_samples_count + 1
        average == IF l.count > 0 THEN Some(Mean(l.sum, l.count)) ELSE l.previous_average
        previous_average == IF no_samples_count > StaleBuckets THEN None ELSE average
    IN  [l EXCEPT !.fin = fin,
                  !.no_samples_count = no_samples_count,
                  !.previous_average = previous_average,
                  !.timestamp = l.timestamp + interval,
                  !.averages = Append(l.averages, previous_average),
                  !.count = 0,
                  !.sum = 0]

\* one pass of the loop without loops += 1
Pass_nocount(samples, interval, l0) ==
    LET l == l0
    IN  IF l.loops > LoopCeiling
        THEN [done |-> TRUE, res |-> Panic("Looping forever"), l |-> l]
        ELSE IF l.it <= Len(samples)
                /\ samples[l.it].timestamp < l.timestamp + interval
        THEN [done |-> FALSE, res |-> None,
              l |-> [l EXCEPT !.sum = l.sum + samples[l.it].temperature,
                              !.count = l.count + 1,
                              !.it = l.it + 1]]
        ELSE LET closed == CloseBucket(l, interval, l.it > Len(samples))
             IN  IF Len(closed.averages) > AveragesCeiling \/ closed.fin
                 THEN [done |-> TRUE, res |-> Ok(closed.averages), l |-> closed]
                 ELSE [done |-> FALSE, res |-> None, l |-> closed]

\* one pass of `while !fin { .. }` from the locals l0 (fin not set): the locals
\* after it, and the result when the pass is the last one (the panic, the break,
\* or fin set, after which Ok(averages) is returned)
Pass(samples, interval, l0) ==
    LET l == [l0 EXCEPT !.loops = l0.loops + 1]
    IN  IF l.loops > LoopCeiling
        THEN [done |-> TRUE, res |-> Panic("Looping forever"), l |-> l]
        ELSE IF l.it <= Len(samples)
                /\ samples[l.it].timestamp < l.timestamp + interval
        THEN [done |-> FALSE, res |-> None,
              l |-> [l EXCEPT !.sum = l.sum + samples[l.it].temperature,
                              !.count = l.count + 1,
                              !.it = l.it + 1]]
        ELSE LET closed == CloseBucket(l, interval, l.it > Len(samples))
             IN  IF Len(closed.averages) > AveragesCeiling \/ closed.fin
                 THEN [done |-> TRUE, res |-> Ok(closed.averages), l |-> closed]
                 ELSE [done |-> FALSE, res |-> None, l |-> closed]

RECURSIVE Loop(_, _, _)
Loop(samples, interval, l0) ==
    IF l0.fin THEN Ok(l0.averages)
    ELSE LET p == Pass(samples, interval, l0)
         IN  IF p.done THEN p.res ELSE Loop(samples, interval, p.l)

per_minute_avg_fill(self, from, to) ==
    IF from > to THEN Err("InvalidTimeRange")
    ELSE LET got == get_samples_in_range(self, from, to)
         IN  IF ~got.ok THEN got
             ELSE IF got.val = <<>> THEN Ok(<<>>)
             ELSE IF \E i \in 1..(Len(got.val) - 1) :
                        got.val[i].timestamp > got.val[i + 1].timestamp
             THEN Err("InvalidTimeRange")
             ELSE Loop(got.val, from_secs(self.config.averaging_interval),
                       Locals(got.val))

read_sample(self, from, duration) ==
    LET samples == get_samples_in_range(self, from, from + duration)
    IN  IF ~samples.ok THEN samples
        ELSE IF samples.val # <<>> THEN Ok(samples.val[1])
        ELSE Err("NoDataAvailable")

(* ------------------------------ actions -------------------------------- *)

Capacities == {None} \cup {Some(n) : n \in 0..MaxCap}

NoCall == [op |-> "new"]

\* what the backlog file can hold when the process first starts: nothing, records
\* out of order, a malformed line between two records, and a line that is not
\* UTF-8 between two records
InitialBacklogs ==
    { <<>>,
      <<serialize(Sample(from_secs(1), 1)).val, serialize(Sample(0, 2)).val>>,
      <<serialize(Sample(0, 1)).val, <<Word("t1"), Word("x")>>,
        serialize(Sample(from_secs(1), 2)).val>>,
      <<serialize(Sample(0, 1)).val, BadUtf8, serialize(Sample(from_secs(1), 2)).val>> }

Handlers == 1..MaxHandlers

\* a handler with no request
Idle == [pc |-> "idle", guard |-> FALSE, now |-> 0, from |-> 0,
         temperatures |-> <<>>, latest_time |-> None, oldest_time |-> None,
         snap |-> None, err |-> None]

\* the wall clock when the process starts: late enough for a backlog file to hold
\* records that lie AveragesCeiling seconds apart
Boot == from_secs(AveragesCeiling)

\* run_app after Storage::new: the mutex is free, the polling task is about to
\* fetch, no request is in flight
AppStart ==
    /\ clock = Boot
    /\ mutex = [locked |-> FALSE, poisoned |-> FALSE]
    /\ ingest = [pc |-> "fetch", guard |-> FALSE, val |-> None, cnt |-> 0]
    /\ handler = [h \in Handlers |-> Idle]

Start(cap, avg, file, lines) ==
    /\ storage = New(Config(cap, avg, file), lines)
    /\ backlog = lines
    /\ inserted = (IF file # None THEN Records(lines) ELSE <<>>)
    /\ call = NoCall
    /\ AppStart

Init ==
    \E cap \in Capacities :
        \/ Start(cap, 1, None, <<>>)
        \/ \E lines \in InitialBacklogs : Start(cap, 1, Some("backlog"), lines)

\* the outcomes of file_store.write(..): no write is made without a file
Writes(self) == IF self.file_store = None THEN {TRUE} ELSE BOOLEAN

\* SystemTime::now() may step backwards and may lie before the epoch
AddMeasurement ==
    /\ Len(inserted) < MaxInserts
    /\ \E now \in (-1)..MaxNow, temp \in Temps, wr \in Writes(storage) :
          /\ storage' = add_measurement(storage, now, temp, wr)
          /\ backlog' = written(storage, backlog, Sample(now, temp), wr)
          /\ inserted' = Append(inserted, Sample(now, temp))
          /\ call' = [op |-> "add_measurement", sample |-> Sample(now, temp),
                      wr |-> wr]
    /\ UNCHANGED appVars

PushRawSample ==
    /\ Len(inserted) < MaxInserts
    /\ \E ts \in 0..MaxNow, temp \in Temps :
          /\ storage' = push_raw_sample(storage, Sample(ts, temp))
          /\ inserted' = Append(inserted, Sample(ts, temp))
          /\ call' = [op |-> "push_raw_sample", sample |-> Sample(ts, temp),
                      wr |-> TRUE]
    /\ UNCHANGED <<backlog, appVars>>

\* a replay that writes the records it reads back to the file
Restart_append ==
    /\ storage.config.backlog # None
    /\ Len(backlog) <= MaxInserts
    /\ storage' = New(storage.config, backlog)
    /\ inserted' = Records(backlog)
    /\ call' = NoCall
    /\ backlog' = backlog \o [i \in 1..Len(Records(backlog)) |->
                                serialize(Records(backlog)[i]).val]
    /\ UNCHANGED appVars

\* the process is started again: Storage::new over the file as it now is
Restart ==
    /\ storage.config.backlog # None
    /\ Len(backlog) <= MaxInserts
    /\ storage' = New(storage.config, backlog)
    /\ inserted' = Records(backlog)
    /\ call' = NoCall
    /\ UNCHANGED <<backlog, appVars>>

Next == AddMeasurement \/ PushRawSample \/ Restart

Spec == Init /\ [][Next]_vars

(* ----------------------- the query specification ----------------------- *)

\* the timestamps fed: the whole seconds, and one tick that is off the second
QueryTimes == {1} \cup {from_secs(s) : s \in 0..MaxSecs}
QueryFroms == {0, from_secs(1)}
QueryTos == {1, from_secs(1), from_secs(MaxSecs)}
QueryDurations == {0, 1, from_secs(MaxSecs)}

InitQuery ==
    \E cap \in {None, Some(1)}, avg \in 0..MaxInterval : Start(cap, avg, None, <<>>)

\* a push that builds the store the queries are made of
Feed ==
    /\ Len(storage.samples) < MaxSamples
    /\ \E ts \in QueryTimes, temp \in Temps :
          storage' = push_raw_sample(storage, Sample(ts, temp))
    /\ call' = NoCall
    /\ UNCHANGED <<backlog, inserted, appVars>>

GetSamplesInRange ==
    /\ \E from \in QueryFroms, to \in QueryTos :
          call' = [op |-> "get_samples_in_range", from |-> from, to |-> to,
                   res |-> get_samples_in_range(storage, from, to)]
    /\ UNCHANGED <<storage, backlog, inserted, appVars>>

PerMinuteAvgFill ==
    /\ \E from \in QueryFroms, to \in QueryTos :
          call' = [op |-> "per_minute_avg_fill", from |-> from, to |-> to,
                   res |-> per_minute_avg_fill(storage, from, to)]
    /\ UNCHANGED <<storage, backlog, inserted, appVars>>

ReadSample ==
    /\ \E from \in QueryFroms, duration \in QueryDurations :
          call' = [op |-> "read_sample", from |-> from, to |-> from + duration,
                   res |-> read_sample(storage, from, duration)]
    /\ UNCHANGED <<storage, backlog, inserted, appVars>>

NextQuery == Feed \/ GetSamplesInRange \/ PerMinuteAvgFill \/ ReadSample

SpecQuery == InitQuery /\ [][NextQuery]_vars

(* ------------------- the specification of the loop --------------------- *)

\* per_minute_avg_fill returns before its loop: the range is invalid, no sample is
\* in range, or two samples are out of order
ReturnsEarly(self, from, to) ==
    \/ from > to
    \/ ~get_samples_in_range(self, from, to).ok
    \/ LET samples == get_samples_in_range(self, from, to).val
       IN  \/ samples = <<>>
           \/ \E i \in 1..(Len(samples) - 1) :
                 samples[i].timestamp > samples[i + 1].timestamp

\* a push while no query runs
FeedLoop ==
    /\ call = NoCall
    /\ Feed

\* per_minute_avg_fill is called and runs to the head of its loop
Enter ==
    /\ call = NoCall
    /\ \E from \in QueryFroms, to \in QueryTos :
          call' = IF ReturnsEarly(storage, from, to)
                  THEN [op |-> "per_minute_avg_fill", from |-> from, to |-> to,
                        res |-> per_minute_avg_fill(storage, from, to)]
                  ELSE [op |-> "loop", from |-> from, to |-> to,
                        samples |-> get_samples_in_range(storage, from, to).val,
                        l |-> Locals(get_samples_in_range(storage, from, to).val)]
    /\ UNCHANGED <<storage, backlog, inserted, appVars>>

\* one pass of the loop; the last pass returns
LoopPass ==
    /\ call.op = "loop"
    /\ LET p == Pass(call.samples, from_secs(storage.config.averaging_interval), call.l)
       IN  call' = IF p.done
                   THEN [op |-> "per_minute_avg_fill", from |-> call.from,
                         to |-> call.to, res |-> p.res]
                   ELSE [call EXCEPT !.l = p.l]
    /\ UNCHANGED <<storage, backlog, inserted, appVars>>

NextLoop == FeedLoop \/ Enter \/ LoopPass

SpecLoop == InitQuery /\ [][NextLoop]_vars

(* ------------------- the specification of the lines -------------------- *)

\* the tokens the lines are made of: the tag and another word, integers about the
\* bounds of the two numbers of a record, and the literals that are no numbers
Tokens ==
    {Word("t1"), Word("x"), Num(-1), Num(0), Num(1000), Num(1001), Num(-1000),
     Num(-1001), NanLit, InfLit(1), InfLit(-1)}

RECURSIVE LinesOf(_)
LinesOf(n) ==
    IF n = 0 THEN {<<>>}
    ELSE LinesOf(n - 1) \cup {Append(l, t) : l \in {x \in LinesOf(n - 1) : Len(x) = n - 1},
                                             t \in Tokens}

\* a line is at hand
InitLine ==
    /\ storage = New(Config(None, 1, None), <<>>)
    /\ backlog = <<>>
    /\ inserted = <<>>
    /\ AppStart
    /\ \E line \in LinesOf(MaxTokens) : call = [op |-> "line", line |-> line]

Deserialize ==
    /\ call.op = "line"
    /\ call' = [op |-> "deserialize", line |-> call.line, res |-> deserialize(call.line)]
    /\ UNCHANGED <<storage, backlog, inserted, appVars>>

NextLine == Deserialize

SpecLine == InitLine /\ [][NextLine]_vars

(* -------------------- the application specification -------------------- *)

\* a lock that is handed out while another guard is alive
CanLock_always(m) == TRUE

\* Mutex::lock returns once the mutex is free
CanLock(m) == ~m.locked

\* the timestamp of a sample as the response gives it
\* (duration_since(UNIX_EPOCH).unwrap_or_default().as_secs())
unix_secs(sample) ==
    IF sample = None THEN None
    ELSE IF sample[1].timestamp < 0 THEN Some(0)
    ELSE Some(as_secs(sample[1].timestamp))

TempsResponse(l) ==
    [ temperatures     |-> l.temperatures,
      latest_time      |-> l.latest_time,
      oldest_time      |-> l.oldest_time,
      interval_minutes |-> 1,
      count            |-> Len(l.temperatures) ]

\* AppError::InternalError(msg)
InternalError(msg) == [kind |-> "InternalError", msg |-> msg]

\* impl From<PoisonError<T>> for AppError
FromPoisonError == InternalError("Mutex lock was poisoned")

\* the map_err of the temps handler
FromStorageError(e) ==
    IF e = "InvalidTimeRange" THEN InternalError("Invalid time range")
    ELSE InternalError("No data available for the requested time range")

\* backlog files left by earlier runs: two records that lie AveragesCeiling
\* seconds apart, and two records of consecutive seconds
AppBacklogs ==
    { <<serialize(Sample(0, 1)).val, serialize(Sample(Boot, 2)).val>>,
      <<serialize(Sample(Boot - from_secs(1), 1)).val, serialize(Sample(Boot, 2)).val>> }

InitApp ==
    \/ \E cap \in {Some(1), Some(MaxCap)} : Start(cap, 1, None, <<>>)
    \/ \E lines \in AppBacklogs : Start(Some(MaxCap), 1, Some("backlog"), lines)

Tick ==
    /\ clock < Boot + MaxClock
    /\ clock' = clock + 1
    /\ UNCHANGED <<storeVars, mutex, ingest, handler>>

\* temp_sensor.query().await
Fetch ==
    /\ ingest.pc = "fetch"
    /\ ingest.cnt < MaxCnt
    /\ \/ \E temp \in Temps : ingest' = [ingest EXCEPT !.pc = "lock", !.val = Some(temp)]
       \/ ingest' = [ingest EXCEPT !.pc = "sleep", !.val = None]
    /\ UNCHANGED <<storeVars, clock, mutex, handler>>

\* the polling task with storage.lock().unwrap(): a poisoned lock ends the task
IngestLock_unwrap ==
    /\ ingest.pc = "lock"
    /\ CanLock(mutex)
    /\ IF mutex.poisoned
       THEN /\ ingest' = [ingest EXCEPT !.pc = "dead", !.val = None]
            /\ UNCHANGED mutex
       ELSE /\ ingest' = [ingest EXCEPT !.pc = "add", !.guard = TRUE,
                                        !.cnt = ingest.cnt + 1]
            /\ mutex' = [mutex EXCEPT !.locked = TRUE]
    /\ UNCHANGED <<storeVars, clock, handler>>

\* if let Ok(mut storage) = storage.lock() { cnt += 1; .. } else { error!(..) }:
\* the guard inside a PoisonError is dropped with the error
IngestLock ==
    /\ ingest.pc = "lock"
    /\ CanLock(mutex)
    /\ IF mutex.poisoned
       THEN /\ ingest' = [ingest EXCEPT !.pc = "sleep", !.val = None]
            /\ UNCHANGED mutex
       ELSE /\ ingest' = [ingest EXCEPT !.pc = "add", !.guard = TRUE,
                                        !.cnt = ingest.cnt + 1]
            /\ mutex' = [mutex EXCEPT !.locked = TRUE]
    /\ UNCHANGED <<storeVars, clock, handler>>

\* add_measurement called a second time under the same guard
IngestAdd_twice ==
    /\ ingest.pc = "add"
    /\ storage' = add_measurement(add_measurement(storage, clock, ingest.val[1], TRUE),
                                  clock, ingest.val[1], TRUE)
    /\ backlog' = written(storage, backlog, Sample(clock, ingest.val[1]), TRUE)
    /\ ingest' = [ingest EXCEPT !.pc = "unlock"]
    /\ UNCHANGED <<inserted, call, clock, mutex, handler>>

\* storage.add_measurement(..) under the guard; the write to the backlog file is
\* taken to succeed here, its failure is an input of AddMeasurement
IngestAdd ==
    /\ ingest.pc = "add"
    /\ storage' = add_measurement(storage, clock, ingest.val[1], TRUE)
    /\ backlog' = written(storage, backlog, Sample(clock, ingest.val[1]), TRUE)
    /\ ingest' = [ingest EXCEPT !.pc = "unlock"]
    /\ UNCHANGED <<inserted, call, clock, mutex, handler>>

\* the guard bound outside the loop body: it is alive during the sleep
IngestUnlock_keep ==
    /\ ingest.pc = "unlock"
    /\ ingest' = [ingest EXCEPT !.pc = "sleep", !.val = None]
    /\ UNCHANGED <<storeVars, clock, mutex, handler>>

\* the guard goes out of scope
IngestUnlock ==
    /\ ingest.pc = "unlock"
    /\ ingest' = [ingest EXCEPT !.pc = "sleep", !.guard = FALSE, !.val = None]
    /\ mutex' = [mutex EXCEPT !.locked = FALSE]
    /\ UNCHANGED <<storeVars, clock, handler>>

\* tokio::time::sleep(sampling_interval).await
Sleep ==
    /\ ingest.pc = "sleep"
    /\ ingest' = [ingest EXCEPT !.pc = "fetch"]
    /\ UNCHANGED <<storeVars, clock, mutex, handler>>

\* GET /temps?hours=..: the range is computed before the lock is taken
Request(h) ==
    /\ handler[h].pc = "idle"
    /\ \E hours \in {0, 1} :
          handler' = [handler EXCEPT ![h] =
              [Idle EXCEPT !.pc = "lock", !.now = clock,
                           !.from = clock - from_secs(hours * SecsPerHour)]]
    /\ UNCHANGED <<storeVars, clock, mutex, ingest>>

\* state.storage.lock()?
HandlerLock(h) ==
    /\ handler[h].pc = "lock"
    /\ CanLock(mutex)
    /\ IF mutex.poisoned
       THEN /\ handler' = [handler EXCEPT ![h] =
                   [Idle EXCEPT !.pc = "failed", !.err = Some(FromPoisonError)]]
            /\ UNCHANGED mutex
       ELSE /\ handler' = [handler EXCEPT ![h].pc = "avg", ![h].guard = TRUE,
                                          ![h].snap = Some(storage)]
            /\ mutex' = [mutex EXCEPT !.locked = TRUE]
    /\ UNCHANGED <<storeVars, clock, ingest>>

\* storage.per_minute_avg_fill(from, now).map_err(..)?: an error is returned and
\* the guard dropped; a panic unwinds the task of the request, which poisons the
\* mutex as the guard is dropped, and the caller gets no response
HandlerAvg(h) ==
    /\ handler[h].pc = "avg"
    /\ LET res == per_minute_avg_fill(storage, handler[h].from, handler[h].now)
       IN  IF res.ok
           THEN /\ handler' = [handler EXCEPT ![h].pc = "latest",
                                              ![h].temperatures = res.val]
                /\ UNCHANGED mutex
           ELSE IF res.err = "panic"
           THEN /\ handler' = [handler EXCEPT ![h] = Idle]
                /\ mutex' = [locked |-> FALSE, poisoned |-> TRUE]
           ELSE /\ handler' = [handler EXCEPT ![h] =
                       [Idle EXCEPT !.pc = "failed",
                                    !.err = Some(FromStorageError(res.err))]]
                /\ mutex' = [mutex EXCEPT !.locked = FALSE]
    /\ UNCHANGED <<storeVars, clock, ingest>>

\* storage.latest_sample().map(..)
HandlerLatest(h) ==
    /\ handler[h].pc = "latest"
    /\ handler' = [handler EXCEPT ![h].pc = "oldest",
                                  ![h].latest_time = unix_secs(latest_sample(storage))]
    /\ UNCHANGED <<storeVars, clock, mutex, ingest>>

\* storage.oldest_sample().map(..)
HandlerOldest(h) ==
    /\ handler[h].pc = "oldest"
    /\ handler' = [handler EXCEPT ![h].pc = "respond",
                                  ![h].oldest_time = unix_secs(oldest_sample(storage))]
    /\ UNCHANGED <<storeVars, clock, mutex, ingest>>

\* Ok(Json(response)), the response being TempsResponse(handler[h]): the guard is
\* dropped as the handler returns
Respond(h) ==
    /\ handler[h].pc = "respond"
    /\ handler' = [handler EXCEPT ![h] = Idle]
    /\ mutex' = [mutex EXCEPT !.locked = FALSE]
    /\ UNCHANGED <<storeVars, clock, ingest>>

\* Err(e) of the handler: the response of AppError::into_response
RespondErr(h) ==
    /\ handler[h].pc = "failed"
    /\ handler' = [handler EXCEPT ![h] = Idle]
    /\ UNCHANGED <<storeVars, clock, mutex, ingest>>

Temps_(h) ==
    \/ Request(h) \/ HandlerLock(h) \/ HandlerAvg(h)
    \/ HandlerLatest(h) \/ HandlerOldest(h) \/ Respond(h) \/ RespondErr(h)

NextApp ==
    \/ Tick
    \/ Fetch \/ IngestLock \/ IngestAdd \/ IngestUnlock \/ Sleep
    \/ \E h \in Handlers : Temps_(h)

SpecApp == InitApp /\ [][NextApp]_vars

(* ------------------------------ claims --------------------------------- *)

NonDecreasing(seq) ==
    \A i \in 1..Len(seq) : \A j \in i..Len(seq) : seq[i].timestamp <= seq[j].timestamp

\* the number of samples a store of this capacity keeps of m inserts
Kept(m) ==
    IF storage.config.max_capacity = None THEN m
    ELSE Min(m, storage.config.max_capacity[1])

\* C1: the buffer never holds more than the capacity and a store of capacity 0 is
\* always empty; after M inserts with non-decreasing timestamps the buffer is the
\* last min(M, N) inserted samples in insertion order, oldest_sample() is the
\* first of them and latest_sample() is the last insert.
C1_LastInsertsSurvive ==
    LET M == Len(inserted)
        K == Kept(M)
    IN  /\ storage.config.max_capacity # None
              => len(storage) <= storage.config.max_capacity[1]
        /\ storage.config.max_capacity = Some(0) => storage.samples = <<>>
        /\ NonDecreasing(inserted) =>
              /\ len(storage) = K
              /\ storage.samples = SubSeq(inserted, M - K + 1, M)
              /\ K > 0 => /\ oldest_sample(storage) = Some(inserted[M - K + 1])
                          /\ latest_sample(storage) = Some(inserted[M])
              /\ K = 0 => oldest_sample(storage) = None /\ latest_sample(storage) = None
              /\ (storage.config.max_capacity = Some(1) /\ M > 0)
                    => storage.samples = <<inserted[M]>>

\* three ordered inserts into a store of capacity 2: the first one was evicted
C1_Witness ==
    /\ storage.config.max_capacity = Some(2)
    /\ Len(inserted) = 3
    /\ NonDecreasing(inserted)
    /\ inserted[1] # inserted[2]
    /\ storage.samples = <<inserted[2], inserted[3]>>

\* a step that is a call of push_raw_sample (directly or by add_measurement)
Pushed == call'.op \in {"push_raw_sample", "add_measurement"}

\* C2: a push of a sample older than the last accepted one leaves the store as it
\* was (len, latest_sample, oldest_sample, get_last_sample, the buffer and
\* last_sample_time); a sample as old as the last accepted one is accepted.
C2_RejectedPushChangesNothing ==
    [][ (Pushed /\ storage.last_sample_time # None) =>
          /\ call'.sample.timestamp < storage.last_sample_time[1] =>
                /\ storage' = storage
                /\ len(storage') = len(storage)
                /\ latest_sample(storage') = latest_sample(storage)
                /\ oldest_sample(storage') = oldest_sample(storage)
                /\ get_last_sample(storage') = get_last_sample(storage)
          /\ call'.sample.timestamp = storage.last_sample_time[1] =>
                /\ storage'.last_sample_time = Some(call'.sample.timestamp)
                /\ storage.config.max_capacity # Some(0) =>
                      /\ latest_sample(storage') = Some(call'.sample)
                      /\ get_last_sample(storage') = Some(call'.sample)
      ]_vars

\* the last call pushed a sample older than the newest of a non-empty buffer
C2_Witness ==
    /\ call.op = "push_raw_sample"
    /\ storage.samples # <<>>
    /\ call.sample.timestamp < storage.last_sample_time[1]

\* C3: the buffered samples are in non-decreasing timestamp order from head to
\* tail, whatever the capacity and whatever timestamps were pushed or replayed.
C3_SamplesOrdered == NonDecreasing(storage.samples)

\* two samples are buffered although the pushes came out of order
C3_Witness ==
    /\ Len(storage.samples) >= 2
    /\ ~NonDecreasing(inserted)
    /\ storage.samples[1].timestamp < storage.samples[2].timestamp

(* ---------------------- claims about the queries ----------------------- *)

IsQuery(ops) == call.op \in ops

\* the positions in the buffer of the samples within [from, to] of the last query
InRange ==
    {i \in 1..Len(storage.samples) :
        /\ storage.samples[i].timestamp >= call.from
        /\ storage.samples[i].timestamp <= call.to}

\* the k-th smallest position of InRange
Nth(k) == CHOOSE i \in InRange : Cardinality({j \in InRange : j <= i}) = k

\* C4: with from <= to and a sample in range, get_samples_in_range returns the
\* buffered samples with from <= timestamp <= to, each once, in stored order.
C4_RangeIsExact ==
    (IsQuery({"get_samples_in_range"}) /\ call.from <= call.to /\ InRange # {}) =>
        /\ call.res.ok
        /\ Len(call.res.val) = Cardinality(InRange)
        /\ \A k \in 1..Len(call.res.val) : call.res.val[k] = storage.samples[Nth(k)]

\* a range that holds one of two buffered samples, the one on its lower bound
C4_Witness ==
    /\ IsQuery({"get_samples_in_range"})
    /\ call.res.ok
    /\ Len(storage.samples) = 2
    /\ Len(call.res.val) = 1
    /\ call.res.val[1].timestamp = call.from
    /\ call.from < call.to

\* C5: get_samples_in_range and per_minute_avg_fill return InvalidTimeRange
\* exactly when from > to, whatever the store holds.
C5_InvalidRangeIffFromAfterTo ==
    IsQuery({"get_samples_in_range", "per_minute_avg_fill"}) =>
        ((call.res = Err("InvalidTimeRange")) <=> (call.from > call.to))

\* from > to asked of a store that holds samples
C5_Witness ==
    /\ IsQuery({"per_minute_avg_fill"})
    /\ call.from > call.to
    /\ storage.samples # <<>>
    /\ call.res = Err("InvalidTimeRange")

\* C6: with from <= to and no buffered sample in [from, to] the three queries
\* return NoDataAvailable, and neither get_samples_in_range nor
\* per_minute_avg_fill ever returns an empty sequence as its result.
C6_NoDataIsReported ==
    /\ (IsQuery({"get_samples_in_range", "per_minute_avg_fill", "read_sample"})
           /\ call.from <= call.to /\ InRange = {})
          => call.res = Err("NoDataAvailable")
    /\ IsQuery({"get_samples_in_range", "per_minute_avg_fill"})
          => ~(call.res.ok /\ call.res.val = <<>>)

\* a valid range that misses every sample of a store that is not empty
C6_Witness ==
    /\ IsQuery({"per_minute_avg_fill"})
    /\ call.from <= call.to
    /\ storage.samples # <<>>
    /\ InRange = {}
    /\ call.res = Err("NoDataAvailable")

\* the bucket width and the start of the first bucket of the last aggregation
Width == from_secs(storage.config.averaging_interval)
T0 == storage.samples[Nth(1)].timestamp

\* the in-range samples whose timestamp lies in the k-th bucket (k from 1),
\* [T0 + (k-1)*Width, T0 + k*Width)
Members(k) ==
    {i \in InRange :
        /\ storage.samples[i].timestamp >= T0 + (k - 1) * Width
        /\ storage.samples[i].timestamp < T0 + k * Width}

RECURSIVE SumTemps(_)
SumTemps(S) ==
    IF S = {} THEN 0
    ELSE LET i == CHOOSE x \in S : TRUE
         IN  storage.samples[i].temperature + SumTemps(S \ {i})

\* v is the arithmetic mean of the temperatures of the samples at positions S
IsMeanOf(v, S) ==
    /\ v # None
    /\ v[1].den > 0
    /\ v[1].num * Cardinality(S) = SumTemps(S) * v[1].den

Aggregated == IsQuery({"per_minute_avg_fill"}) /\ call.res.ok

\* C7: for an averaging interval > 0, in a successful per_minute_avg_fill every
\* in-range sample lies in one of the returned buckets, the k-th bucket covering
\* [t0 + k*W, t0 + (k+1)*W), a bucket with samples has the mean of exactly its
\* member samples, and a lone sample yields one bucket with its temperature.
C7_BucketsHoldTheirSamples ==
    (Aggregated /\ Width > 0) =>
        /\ \A i \in InRange : \E k \in 1..Len(call.res.val) : i \in Members(k)
        /\ \A k \in 1..Len(call.res.val) :
              Members(k) # {} => IsMeanOf(call.res.val[k], Members(k))
        /\ Cardinality(InRange) = 1 =>
              call.res.val =
                  <<Some([num |-> storage.samples[Nth(1)].temperature, den |-> 1])>>

\* every in-range sample lies in one of the returned buckets
Complete == \A i \in InRange : \E k \in 1..Len(call.res.val) : i \in Members(k)

\* C7 where no sample was left out: the buckets returned have the mean of their
\* member samples
C7_ReturnedBucketsAreMeans ==
    (Aggregated /\ Width > 0) =>
        /\ \A k \in 1..Len(call.res.val) :
              Members(k) # {} => IsMeanOf(call.res.val[k], Members(k))
        /\ Complete =>
              (Cardinality(InRange) = 1 =>
                  call.res.val =
                      <<Some([num |-> storage.samples[Nth(1)].temperature, den |-> 1])>>)

\* the number of empty buckets that end at bucket k, itself included
RECURSIVE EmptyRun(_)
EmptyRun(k) ==
    IF k = 0 \/ Members(k) # {} THEN 0 ELSE 1 + EmptyRun(k - 1)

\* C8: a bucket with samples carries its own mean (never None); the 1st to 5th
\* empty bucket after a bucket with value v carries v; the 6th and every later
\* empty bucket of the run is None.
C8_ForwardFillThenNone ==
    Aggregated =>
        \A k \in 1..Len(call.res.val) :
            LET e == EmptyRun(k)
            IN  /\ e = 0 => IsMeanOf(call.res.val[k], Members(k))
                /\ (e >= 1 /\ e <= StaleBuckets /\ k - e >= 1)
                      => call.res.val[k] = call.res.val[k - e]
                /\ e > StaleBuckets => call.res.val[k] = None

\* a value, five buckets that carry it, a sixth empty bucket that is None, and
\* then a bucket with a sample of another temperature
C8_Witness ==
    /\ Aggregated
    /\ Width > 0
    /\ Len(call.res.val) = 8
    /\ call.res.val[1] # None
    /\ \A k \in 2..6 : call.res.val[k] = call.res.val[1]
    /\ call.res.val[7] = None
    /\ call.res.val[8] # None
    /\ call.res.val[8] # call.res.val[1]

\* C9: per_minute_avg_fill never returns a successful result that leaves out
\* samples of the range: when a ceiling of the loop is exceeded the call fails.
C9_NoSilentTruncation ==
    Aggregated => Complete

(* ---------------------- claims about the backlog file ------------------ *)

Parsed == call.op = "deserialize"

\* the line is a record: three tokens, the tag, an integer >= 0, and a finite
\* number within [-1000, 1000]
Valid(line) ==
    /\ Len(line) = 3
    /\ IsTag(line[1])
    /\ line[2].k = "int" /\ line[2].v >= 0
    /\ line[3].k = "int" /\ line[3].v >= -1000 /\ line[3].v <= 1000

\* C15: Sample::deserialize accepts a line exactly when it has three tokens, the
\* first the tag "t1", the second an integer >= 0, the third a finite number
\* within [-1000, 1000]; a third token NaN or an infinity is rejected.
C15_AcceptsExactlyValidLines ==
    Parsed => (call.res.ok <=> Valid(call.line))

\* C15 but for the lines whose third token is NaN
C15_ExceptNaN ==
    (Parsed /\ ~(Len(call.line) = 3 /\ call.line[3].k = "nan"))
        => (call.res.ok <=> Valid(call.line))


\* the samples of seq that push_raw_sample accepts when the last accepted
\* timestamp is last
RECURSIVE AcceptedFrom(_, _)
AcceptedFrom(last, seq) ==
    IF seq = <<>> THEN <<>>
    ELSE IF last # None /\ last[1] > Head(seq).timestamp
    THEN AcceptedFrom(last, Tail(seq))
    ELSE <<Head(seq)>> \o AcceptedFrom(Some(Head(seq).timestamp), Tail(seq))

\* this step is a call of add_measurement on a store with a backlog file
AddsToFile == call'.op = "add_measurement" /\ storage.file_store # None

Rejects(self, sample) ==
    self.last_sample_time # None /\ self.last_sample_time[1] > sample.timestamp

\* C12: with a backlog file and no failure to serialize or write, add_measurement
\* appends the record of the sample when the store accepts the sample and appends
\* nothing when the store rejects it as older than the last accepted one.
C12_BacklogMirrorsAccepted ==
    [][ (AddsToFile /\ call'.wr /\ serialize(call'.sample).ok) =>
          IF Rejects(storage, call'.sample)
          THEN backlog' = backlog
          ELSE backlog' = Append(backlog, serialize(call'.sample).val)
      ]_vars

\* the store without its backlog file
NoBacklog(self) ==
    [self EXCEPT !.file_store = None, !.config = [@ EXCEPT !.backlog = None]]

\* an empty store of this configuration
Empty(config) ==
    [samples |-> <<>>, file_store |-> None, last_sample_time |-> None,
     config |-> config, last |-> None]

RECURSIVE PushAll(_, _)
PushAll(self, seq) ==
    IF seq = <<>> THEN self ELSE PushAll(push_raw_sample(self, Head(seq)), Tail(seq))

\* the well-formed records of a file, in file order
RECURSIVE WellFormed(_)
WellFormed(lines) ==
    IF lines = <<>> THEN <<>>
    ELSE (IF deserialize(Head(lines)).ok THEN <<deserialize(Head(lines)).val>> ELSE <<>>)
         \o WellFormed(Tail(lines))

Constructed == call.op = "new" /\ storage.config.backlog # None

SameStore(a, b) ==
    /\ a.samples = b.samples
    /\ a.last = b.last
    /\ a.last_sample_time = b.last_sample_time

\* C13: a store constructed from a backlog file has the buffer, last sample and
\* last_sample_time of an empty store of the same capacity fed the well-formed
\* records of the file, in file order, through push_raw_sample; a line that is
\* not a record neither changes the store nor stops the replay.
C13_ReplayIsPushOfWellFormed ==
    Constructed => SameStore(storage, PushAll(Empty(storage.config), WellFormed(backlog)))

\* C13 for the files whose every line can be read as text
C13_ReplayOfReadableFile ==
    (Constructed /\ \A i \in 1..Len(backlog) : Readable(backlog[i]))
        => SameStore(storage, PushAll(Empty(storage.config), WellFormed(backlog)))

\* the sample with its timestamp truncated to whole seconds
Truncated(sample) == Sample(from_secs(as_secs(sample.timestamp)), sample.temperature)

\* the lines Sample::serialize gives for the samples of seq
Lines(seq) == [i \in 1..Len(seq) |-> serialize(seq[i]).val]

\* C14: when the samples a store accepted are serialized and the lines replayed
\* into a fresh store of the same capacity, every line is a record, none is
\* rejected, and the buffer of the fresh store is the buffer of the first store
\* with each timestamp truncated to whole seconds.
C14_RoundTrip ==
    LET accepted == AcceptedFrom(None, inserted)
    IN  (\A i \in 1..Len(accepted) : serialize(accepted[i]).ok) =>
            LET lines == Lines(accepted)
                fresh == New([storage.config EXCEPT !.backlog = Some("backlog")], lines)
            IN  /\ Len(WellFormed(lines)) = Len(accepted)
                /\ AcceptedFrom(None, WellFormed(lines)) = WellFormed(lines)
                /\ fresh.samples =
                      [i \in 1..Len(storage.samples) |-> Truncated(storage.samples[i])]

\* three samples were accepted, the last two within one second and the last one
\* off the second, and the first was evicted
C14_Witness ==
    /\ Len(AcceptedFrom(None, inserted)) = 3
    /\ Len(storage.samples) = 2
    /\ as_secs(storage.samples[1].timestamp) = as_secs(storage.samples[2].timestamp)
    /\ storage.samples[1].timestamp < storage.samples[2].timestamp
    /\ storage.samples[1].temperature # storage.samples[2].temperature

\* C20: when serialize or the write to the backlog file fails, add_measurement
\* still pushes the sample: the store is what push_raw_sample makes of it, which
\* is, file handle aside, the store add_measurement gives with no backlog.
C20_FailedWriteStillPushes ==
    [][ (AddsToFile /\ (~call'.wr \/ ~serialize(call'.sample).ok)) =>
          /\ storage' = push_raw_sample(storage, call'.sample)
          /\ NoBacklog(storage') =
                add_measurement(NoBacklog(storage), call'.sample.timestamp,
                                call'.sample.temperature, TRUE)
      ]_vars

\* the write of an accepted sample failed: the sample is the newest of the buffer
\* and the file has no record
C20_Witness ==
    /\ call.op = "add_measurement"
    /\ ~call.wr
    /\ storage.file_store # None
    /\ latest_sample(storage) = Some(call.sample)
    /\ backlog = <<>>

\* the timestamp of the newest in-range sample of the last query
TLast == storage.samples[Nth(Cardinality(InRange))].timestamp

\* the number of buckets of width w that span [from, to)
Spanning(from, to, w) == (to - from + w - 1) \div w

\* C17 as claimed: a successful aggregation has one entry per bucket of the bucket
\* width spanning [from, to), a number fixed by from, to and the width.
C17_EntriesFixedByRange ==
    (Aggregated /\ Width > 0) =>
        Len(call.res.val) = Spanning(call.from, call.to, Width)

\* C17 as amended: a successful aggregation has one entry per bucket from the
\* bucket that starts at the oldest in-range sample to the bucket that holds the
\* newest in-range sample, (TLast - T0) div W + 1 entries, and no more than the
\* ceiling of the series plus one, which is also the length for a width of 0.
C17_EntriesFixedBySamples ==
    Aggregated =>
        Len(call.res.val) =
            IF Width = 0 THEN AveragesCeiling + 1
            ELSE Min((TLast - T0) \div Width + 1, AveragesCeiling + 1)

\* the range starts before the oldest and ends after the newest sample, and the
\* series has the buckets between the two samples only
C17_Witness ==
    /\ Aggregated
    /\ Width > 0
    /\ call.from < T0
    /\ call.to > TLast
    /\ Len(call.res.val) = (TLast - T0) \div Width + 1
    /\ Len(call.res.val) >= 2
    /\ Len(call.res.val) < Spanning(call.from, call.to, Width)

(* ------------------- further claims about the store -------------------- *)

\* last is the tail of the buffer, through every accessor, and the buffer's tail
\* carries last_sample_time
CacheIsTail(self) ==
    /\ self.last = (IF self.samples = <<>> THEN None
                    ELSE Some(self.samples[Len(self.samples)]))
    /\ get_last_sample(self) = latest_sample(self)
    /\ self.samples # <<>> =>
          self.last_sample_time = Some(self.samples[Len(self.samples)].timestamp)

\* C24: in every state reached through add_measurement, push_raw_sample and the
\* replay of the backlog the cached last sample is the tail of the buffer, so
\* get_last_sample and latest_sample are both absent or the same sample; a buffer
\* that is not empty has last_sample_time at its tail's timestamp; and no push
\* lowers last_sample_time, which after a replay is not below any record read.
C24_CachedLastIsTail ==
    [][ /\ CacheIsTail(storage)
        /\ CacheIsTail(storage')
        /\ (Pushed /\ storage.last_sample_time # None) =>
              /\ storage'.last_sample_time # None
              /\ storage'.last_sample_time[1] >= storage.last_sample_time[1]
        /\ call'.op = "new" =>
              \A i \in 1..Len(inserted') :
                  /\ storage'.last_sample_time # None
                  /\ storage'.last_sample_time[1] >= inserted'[i].timestamp
      ]_vars

\* a store of capacity 0 has accepted a sample: nothing is buffered or cached,
\* and the sample's timestamp is recorded
C24_Witness ==
    /\ storage.config.max_capacity = Some(0)
    /\ call.op \in {"push_raw_sample", "add_measurement"}
    /\ storage.last_sample_time = Some(call.sample.timestamp)
    /\ storage.samples = <<>>
    /\ get_last_sample(storage) = None

\* C26 as claimed: the replay of the backlog writes nothing to the file, nor does
\* push_raw_sample, and every sample that add_measurement hands to a store with
\* a file, and that the store accepts, gets exactly one record in the file.
C26_OneRecordPerAccepted ==
    [][ /\ call'.op \in {"new", "push_raw_sample"} => backlog' = backlog
        /\ (AddsToFile /\ ~Rejects(storage, call'.sample)) =>
              /\ serialize(call'.sample).ok
              /\ backlog' = Append(backlog, serialize(call'.sample).val)
      ]_vars

\* C26 as amended: the replay of the backlog writes nothing to the file, nor does
\* push_raw_sample, so a restart leaves the file as it was; a sample that
\* add_measurement hands to a store with a file, and that the store accepts,
\* gets exactly one record when it is serialized and written without failure,
\* and none otherwise.
C26_ReplayWritesNothing ==
    [][ /\ call'.op \in {"new", "push_raw_sample"} => backlog' = backlog
        /\ (AddsToFile /\ ~Rejects(storage, call'.sample)) =>
              backlog' = IF call'.wr /\ serialize(call'.sample).ok
                         THEN Append(backlog, serialize(call'.sample).val)
                         ELSE backlog
      ]_vars

\* the process has been started again over a file that a run has written to,
\* and the store holds what the file holds
C26_Witness ==
    /\ call.op = "new"
    /\ backlog \notin InitialBacklogs
    /\ inserted = Records(backlog)
    /\ storage.samples # <<>>

\* C25: for a bucket width > 0 and below the ceilings of the loop, a successful
\* aggregation has exactly (TLast - T0) div W + 1 entries, from the bucket of the
\* oldest in-range sample to the bucket of the newest, and its first and its last
\* entry are present: an absent entry lies strictly between them.
C25_EntriesFromFirstToLastSample ==
    (/\ Aggregated
     /\ Width > 0
     /\ (TLast - T0) \div Width + 1 <= AveragesCeiling) =>
        /\ Len(call.res.val) = (TLast - T0) \div Width + 1
        /\ call.res.val[1] # None
        /\ call.res.val[Len(call.res.val)] # None
        /\ \A k \in 1..Len(call.res.val) :
              call.res.val[k] = None => (1 < k /\ k < Len(call.res.val))

\* a series below the ceiling with an absent entry between its two ends
C25_Witness ==
    /\ Aggregated
    /\ Width > 0
    /\ Len(call.res.val) = (TLast - T0) \div Width + 1
    /\ Len(call.res.val) <= AveragesCeiling
    /\ \E k \in 2..(Len(call.res.val) - 1) : call.res.val[k] = None

(* ------------------------ claims about the loop ------------------------ *)

InLoop == call.op = "loop"

\* C21: per_minute_avg_fill terminates, whatever the store, the range and the
\* averaging interval (0 included): every pass of its loop raises loops by one
\* and loops never passes the ceiling by more than one, so the passes are at most
\* LoopCeiling + 1; the loop ends with the samples exhausted and the last bucket
\* closed, at the ceiling of the series, or at the ceiling of loops.
C21_LoopIsBounded ==
    [][ InLoop =>
          /\ call.l.loops <= LoopCeiling
          /\ ~call.l.fin
          /\ call' # call
          /\ call'.op = "loop" =>
                /\ call'.l.loops = call.l.loops + 1
                /\ call'.l.loops <= LoopCeiling
          /\ call'.op = "per_minute_avg_fill" =>
                \/ /\ call'.res = Panic("Looping forever")
                   /\ call.l.loops = LoopCeiling
                \/ /\ call'.res.ok
                   /\ \/ call.l.it > Len(call.samples)
                      \/ Len(call'.res.val) = AveragesCeiling + 1
      ]_vars

\* with an averaging interval of 0 the call has returned, at the ceiling of the
\* series
C21_Witness ==
    /\ call.op = "per_minute_avg_fill"
    /\ storage.config.averaging_interval = 0
    /\ call.res.ok
    /\ Len(call.res.val) = AveragesCeiling + 1

(* -------------------- claims about the application --------------------- *)

Holders ==
    {h \in Handlers : handler[h].guard} \cup (IF ingest.guard THEN {0} ELSE {})

\* C10: at most one task holds a guard of the storage mutex; add_measurement runs
\* under the guard; from its lock to its return a temps handler sees the store it
\* locked, so temperatures, latest_time and oldest_time of a response are computed
\* from that one store state.
C10_OneStoreStatePerResponse ==
    /\ Cardinality(Holders) <= 1
    /\ Holders # {} => mutex.locked
    /\ ingest.pc \in {"add", "unlock"} => ingest.guard
    /\ \A h \in Handlers :
          LET l == handler[h]
          IN  /\ l.pc \in {"avg", "latest", "oldest", "respond"}
                    => l.guard /\ l.snap = Some(storage)
              /\ l.pc \in {"latest", "oldest", "respond"}
                    => Ok(l.temperatures) = per_minute_avg_fill(l.snap[1], l.from, l.now)
              /\ l.pc \in {"oldest", "respond"}
                    => l.latest_time = unix_secs(latest_sample(l.snap[1]))
              /\ l.pc = "respond"
                    => l.oldest_time = unix_secs(oldest_sample(l.snap[1]))

\* a handler is about to respond from a store that holds samples while the polling
\* task, with a value fetched, and another handler wait for the lock
C10_Witness ==
    /\ handler[1].pc = "respond"
    /\ handler[1].temperatures # <<>>
    /\ handler[1].latest_time # None
    /\ ingest.pc = "lock"
    /\ handler[2].pc = "lock"

\* C11: a poisoned storage lock ends neither task: a handler that meets it returns
\* the internal error of the poisoned lock to its own caller and changes nothing
\* else, the polling task that meets it goes to its sleep and then to the next
\* fetch, and a later request or iteration goes on to the lock again.
C11_PoisonedLockIsSurvived ==
    [][ mutex.poisoned =>
          /\ ingest'.pc \in {"fetch", "lock", "add", "unlock", "sleep"}
          /\ (ingest.pc = "lock" /\ ingest' # ingest) =>
                /\ ingest'.pc = "sleep"
                /\ UNCHANGED <<storage, backlog, handler>>
          /\ (ingest.pc = "sleep" /\ ingest' # ingest) => ingest'.pc = "fetch"
          /\ (ingest.pc = "fetch" /\ ingest' # ingest) => ingest'.pc \in {"lock", "sleep"}
          /\ \A h \in Handlers :
                /\ (handler[h].pc = "lock" /\ handler'[h] # handler[h]) =>
                      /\ handler'[h].pc = "failed"
                      /\ handler'[h].err = Some(InternalError("Mutex lock was poisoned"))
                      /\ \A g \in Handlers \ {h} : handler'[g] = handler[g]
                      /\ UNCHANGED <<storage, backlog, ingest>>
                /\ (handler[h].pc = "idle" /\ handler'[h] # handler[h]) =>
                      handler'[h].pc = "lock"
      ]_vars

\* the mutex is poisoned, a handler has the internal error of the poisoned lock
\* to return, and the polling task, with a new value fetched, is at the lock again
C11_Witness ==
    /\ mutex.poisoned
    /\ handler[1].pc = "failed"
    /\ handler[1].err = Some(FromPoisonError)
    /\ handler[2].pc = "lock"
    /\ ingest.pc = "lock"
    /\ ingest.val # None

\* C19: the polling task holds no guard of the storage mutex while it fetches,
\* while it waits for the lock and while it sleeps: it holds the guard only from
\* its lock to the end of the one add_measurement call.
C19_NoLockAcrossFetchOrSleep ==
    /\ ingest.pc \in {"fetch", "lock", "sleep"} => ~ingest.guard
    /\ ingest.guard => ingest.pc \in {"add", "unlock"}
    /\ (ingest.pc \in {"fetch", "sleep"} /\ mutex.locked)
          => \E h \in Handlers : handler[h].guard

\* the polling task sleeps after an add_measurement while a handler holds the lock
C19_Witness ==
    /\ ingest.pc = "sleep"
    /\ ingest.cnt > 0
    /\ storage.samples # <<>>
    /\ ~ingest.guard
    /\ handler[1].guard

\* a handler is about to return Ok(Json(response))
Responding(h) == handler[h].pc = "respond"

\* the samples of seq whose timestamp lies in bucket b (from 0) of width w, the
\* buckets starting at the first sample of seq
InBucket(seq, w, b) ==
    SelectSeq(seq, LAMBDA x : (x.timestamp - seq[1].timestamp) \div w = b)

RECURSIVE SumOf(_)
SumOf(seq) == IF seq = <<>> THEN 0 ELSE Head(seq).temperature + SumOf(Tail(seq))

BucketMean(seq, w, b) == Some(Mean(SumOf(InBucket(seq, w, b)), Len(InBucket(seq, w, b))))

\* the in-range samples of the request of handler h
Ranged(h) == Filter(storage.samples, handler[h].from, handler[h].now)

\* C16: temperatures of a response is ordered most-recent-first: its first entry
\* is the bucket that holds the newest in-range sample, its last entry the bucket
\* that starts at the oldest in-range sample.
C16_MostRecentFirst ==
    \A h \in Handlers :
        (Responding(h) /\ Ranged(h) # <<>>) =>
            LET w == from_secs(storage.config.averaging_interval)
                seq == Ranged(h)
                r == TempsResponse(handler[h]).temperatures
                newest == (seq[Len(seq)].timestamp - seq[1].timestamp) \div w
            IN  /\ r[1] = BucketMean(seq, w, newest)
                /\ r[Len(r)] = BucketMean(seq, w, 0)

\* the order the handler does return: oldest bucket first
C16_OldestFirst ==
    \A h \in Handlers :
        (Responding(h) /\ Ranged(h) # <<>>) =>
            LET w == from_secs(storage.config.averaging_interval)
                seq == Ranged(h)
                r == TempsResponse(handler[h]).temperatures
                newest == (seq[Len(seq)].timestamp - seq[1].timestamp) \div w
            IN  /\ r[1] = BucketMean(seq, w, 0)
                /\ r[Len(r)] = BucketMean(seq, w, newest)

\* C18: in a successful response interval_minutes is the bucket width of the
\* aggregation, the averaging_interval of the configuration (seconds) in minutes,
\* and count is the number of entries of temperatures.
C18_IntervalAndCount ==
    \A h \in Handlers :
        Responding(h) =>
            LET response == TempsResponse(handler[h])
            IN  /\ response.interval_minutes * 60 = storage.config.averaging_interval
                /\ response.count = Len(response.temperatures)

\* the count of a response is the number of its entries
C18_CountIsLength ==
    \A h \in Handlers :
        Responding(h) =>
            TempsResponse(handler[h]).count = Len(TempsResponse(handler[h]).temperatures)

\* the polling task, or a handler, takes a step from its lock
IngestLeavesLock == ingest.pc = "lock" /\ ingest' # ingest
LeavesLock(h) == handler[h].pc = "lock" /\ handler'[h] # handler[h]

\* C22: a query that exceeds the ceiling of the loop aborts alone: once that has
\* happened (the mutex is then marked poisoned) a value the polling task has
\* fetched is still stored, its lock leading to add_measurement, and a later
\* query still gets the lock and goes on to its aggregation.
C22_PanicAbortsOnlyItsQuery ==
    [][ mutex.poisoned =>
          /\ IngestLeavesLock => ingest'.pc = "add"
          /\ \A h \in Handlers : LeavesLock(h) => handler'[h].pc = "avg"
      ]_vars

\* the store or the backlog file is changed by this step
Mutates == storage' # storage \/ backlog' # backlog

\* C23: the polling task never leaves its loop and an iteration is one fetch, at
\* most one add_measurement, and the sleep: a failed fetch and a failed lock go
\* to the sleep with nothing changed, a fetched value goes to the lock and, the
\* lock taken, to exactly one add_measurement, the only step of the task that
\* changes the store; the sleep is followed by the next fetch.
C23_OneFetchOneMutationPerTick ==
    [][ /\ ingest'.pc \in {"fetch", "lock", "add", "unlock", "sleep"}
        /\ ingest' # ingest =>
              /\ ingest.pc = "fetch" =>
                    /\ ingest'.pc \in {"lock", "sleep"}
                    /\ (ingest'.pc = "lock") <=> (ingest'.val # None)
                    /\ ~Mutates
              /\ ingest.pc = "lock" =>
                    /\ ingest'.pc = (IF mutex.poisoned THEN "sleep" ELSE "add")
                    /\ ~Mutates
              /\ ingest.pc = "add" =>
                    /\ ingest'.pc = "unlock"
                    /\ storage' = add_measurement(storage, clock, ingest.val[1], TRUE)
              /\ ingest.pc = "unlock" => ingest'.pc = "sleep" /\ ~Mutates
              /\ ingest.pc = "sleep" => ingest'.pc = "fetch" /\ ~Mutates
        /\ Mutates => ingest.pc = "add" /\ ingest'.pc = "unlock"
      ]_vars

\* the polling task is at its next fetch after an iteration that stored a sample
\* of the running clock
C23_Witness ==
    /\ ingest.pc = "fetch"
    /\ ingest.cnt = MaxCnt
    /\ latest_sample(storage) # None
    /\ latest_sample(storage)[1].timestamp > Boot

====
